---- MODULE Spec2Model ----
(***************************************************************************)
(* Model of the haystack-qdrant-rag scripts:                               *)
(*   demo.py       the hybrid (vector + BM25) query pipeline               *)
(*   app.py        the Streamlit chat surface with PDF upload              *)
(*   index_pdf.py  the ingestion script                                    *)
(*   query_pdf.py  the command-line query loop                             *)
(* The scripts configure Haystack components; a component is modelled by   *)
(* what the configured component computes (DocumentJoiner in "concatenate" *)
(* mode, DocumentSplitter by word, PromptBuilder rendering its template).  *)
(***************************************************************************)
EXTENDS Integers, Sequences, FiniteSets, TLC

(***************************************************************************)
(* Bounds of the model.                                                    *)
(***************************************************************************)
NumDocs == 3
MaxHits == 2
MaxScore == 4
CapHits == 3
MaxWords == 600
MaxTurns == 2
MaxUploads == 2
ChunksPerDoc == 2
MaxQueries == 2

(***************************************************************************)
(* Program constants.                                                      *)
(***************************************************************************)
top_k == 5
split_length == 250
split_overlap == 50
CapDocs == top_k + 1   \* enough distinct documents for the cap to cut

VARIABLES
    \* demo.py: one run of the hybrid pipeline
    hRan,        \* names of the components that have run
    hStatus,     \* "running" | "done" | "error"
    vecOut,      \* output of embedding_retriever (ranked documents)
    kwOut,       \* output of bm25_retriever (ranked documents)
    arrival,     \* order in which the joiner's variadic input received the lists
    fused,       \* output of joiner
    prompt,      \* output of prompt_builder
    reply,       \* output of llm
    \* app.py (one session) and index_pdf.py, sharing the index my_paper_db
    messages,    \* st.session_state.messages
    appPc,       \* position of the session's script run
    chatPrompt,  \* the question submitted last
    before,      \* transcript when the current question was submitted
    turn,        \* outcome of the last question: "none" | "answered" | "failed"
    index,       \* records of the collection my_paper_db
    upDoc,       \* id given to the document being uploaded
    uploads,     \* uploads started so far
    upResult,    \* outcome of the last upload: "none" | "indexed" | the stage that failed
    upChanged,   \* the current upload has changed the index
    scPc,        \* position of index_pdf.py
    scLazy,      \* TRUE: the store resets the collection on first use, not on construction
    scChanged,   \* the current run of index_pdf.py has changed the index
    \* query_pdf.py
    cliPc,       \* "input" | "running" | "exited" | "crashed"
    cliLine,     \* the line read last
    cliOut,      \* what has been printed: the answers, in order
    cliErrors,   \* query-path errors raised so far
    exitCode,    \* process exit code once the loop has ended
    \* DocumentSplitter over one document
    nWords,      \* number of words of the document
    fed,         \* units consumed by the window iteration so far
    winLo,       \* the sliding window holds units [winLo, winHi)
    winHi,
    countdown,   \* units left until the next window is yielded
    chunks,      \* chunks produced so far, as word spans <<lo, hi>>
    spPc         \* "split" | "done"

hybridVars == <<hRan, hStatus, vecOut, kwOut, arrival, fused, prompt, reply>>
chatVars == <<messages, chatPrompt, before, turn>>
uploadVars == <<upDoc, uploads, upResult, upChanged>>
scriptVars == <<scPc, scLazy, scChanged>>
appVars == <<appPc, index, chatVars, uploadVars, scriptVars>>
cliVars == <<cliPc, cliLine, cliOut, cliErrors, exitCode>>
splitVars == <<nWords, fed, winLo, winHi, countdown, chunks, spPc>>
vars == <<hybridVars, appVars, cliVars, splitVars>>
nonHybridVars == <<appVars, cliVars, splitVars>>
nonAppVars == <<hybridVars, cliVars, splitVars>>
nonCliVars == <<hybridVars, appVars, splitVars>>
nonSplitVars == <<hybridVars, appVars, cliVars>>

Min(a, b) == IF a < b THEN a ELSE b
IsPrefix(s, t) == Len(s) <= Len(t) /\ SubSeq(t, 1, Len(s)) = s
Ids(list) == {list[i].id : i \in 1..Len(list)}

(***************************************************************************)
(* demo.py: ranked result lists.  A retriever returns documents with       *)
(* distinct ids, best score first.                                         *)
(***************************************************************************)
RECURSIVE SeqsUpTo(_, _)
SeqsUpTo(S, n) ==
    IF n = 0 THEN {<<>>}
    ELSE LET shorter == SeqsUpTo(S, n - 1)
         IN  shorter \cup {Append(s, x) : s \in {t \in shorter : Len(t) = n - 1}, x \in S}

IsRanked(list) ==
    /\ \A i, j \in 1..Len(list) : i # j => list[i].id # list[j].id
    /\ \A i \in 1..(Len(list) - 1) : list[i].score >= list[i + 1].score

RankedLists(ids, hits, scores) ==
    {l \in SeqsUpTo([id : ids, score : scores], hits) : IsRanked(l)}

Docs == 1..NumDocs
Scores == 1..MaxScore
DemoLists == RankedLists(Docs, MaxHits, Scores)
\* lists over more documents than top_k, all hits scored alike
CapLists == RankedLists(1..CapDocs, CapHits, {MaxScore})

question == "What is the candidate's reference ID and what does he specialize in?"
Replies == {"reply1", "reply2"}

(***************************************************************************)
(* demo.py:52  DocumentJoiner(join_mode="concatenate", top_k=5).           *)
(* Concatenate mode chains the input lists, groups the documents by id in  *)
(* order of first occurrence and keeps of each group the first document of *)
(* highest score (a score of 0 counts as minus infinity in that choice);   *)
(* the joiner then sorts by score, highest first and stable, and cuts the  *)
(* list to top_k.                                                          *)
(***************************************************************************)
RECURSIVE Chain(_)
Chain(lists) == IF lists = <<>> THEN <<>> ELSE Head(lists) \o Chain(Tail(lists))

\* max(docs, key=lambda doc: doc.score if doc.score else -inf): a is a better key than b
BetterKey(a, b) ==
    IF a.score = 0 THEN FALSE ELSE IF b.score = 0 THEN TRUE ELSE a.score > b.score

\* the first document of id `id` in `docs` that no other of that id beats
BestOf(docs, id) ==
    LET same == SelectSeq(docs, LAMBDA d : d.id = id)
        best == CHOOSE i \in 1..Len(same) :
                    /\ \A j \in 1..Len(same) : ~BetterKey(same[j], same[i])
                    /\ \A j \in 1..(i - 1) : BetterKey(same[i], same[j])
    IN  same[best]

\* the ids of `docs` in order of first occurrence
RECURSIVE FirstOccurrences(_, _)
FirstOccurrences(docs, seen) ==
    IF docs = <<>> THEN <<>>
    ELSE IF Head(docs).id \in seen THEN FirstOccurrences(Tail(docs), seen)
    ELSE <<Head(docs).id>> \o FirstOccurrences(Tail(docs), seen \cup {Head(docs).id})

Concatenate(lists) ==
    LET docs == Chain(lists)
        ids == FirstOccurrences(docs, {})
    IN  [i \in 1..Len(ids) |-> BestOf(docs, ids[i])]

\* sorted(docs, key=score, reverse=True): stable, equal scores keep their order
RECURSIVE InsertByScore(_, _)
InsertByScore(sorted, d) ==
    IF sorted = <<>> THEN <<d>>
    ELSE IF Head(sorted).score >= d.score THEN <<Head(sorted)>> \o InsertByScore(Tail(sorted), d)
    ELSE <<d>> \o sorted

RECURSIVE SortByScore(_)
SortByScore(docs) ==
    IF docs = <<>> THEN <<>>
    ELSE InsertByScore(SortByScore(SubSeq(docs, 1, Len(docs) - 1)), docs[Len(docs)])

Truncate(docs, k) == SubSeq(docs, 1, Min(k, Len(docs)))

\* the cut applied to the chained lists, before the duplicates are removed
document_joiner_cut_first(lists) ==
    SortByScore(Concatenate(<<Truncate(Chain(lists), top_k)>>))

document_joiner(lists) == Truncate(SortByScore(Concatenate(lists)), top_k)

(***************************************************************************)
(* demo.py:55-65  the prompt template, rendered by PromptBuilder: the      *)
(* instruction, the context label, one line per document, the question,    *)
(* the answer label.                                                       *)
(***************************************************************************)
template(documents, q) ==
    <<[slot |-> "text", id |-> 0, text |-> "Answer the question based ONLY on the following [Context]."],
      [slot |-> "text", id |-> 0, text |-> "[Context]:"]>>
    \o [i \in 1..Len(documents) |-> [slot |-> "document.content", id |-> documents[i].id, text |-> ""]]
    \o <<[slot |-> "text", id |-> 0, text |-> "Question: "],
         [slot |-> "question", id |-> 0, text |-> q],
         [slot |-> "text", id |-> 0, text |-> "Answer:"]>>

(***************************************************************************)
(* demo.py:71-89  the pipeline graph; a component runs once every          *)
(* component connected to one of its inputs has run.                       *)
(***************************************************************************)
Components ==
    {"text_embedder", "embedding_retriever", "bm25_retriever", "joiner", "prompt_builder", "llm"}

Connections ==
    { <<"text_embedder", "embedding_retriever">>,
      <<"embedding_retriever", "joiner">>,
      <<"bm25_retriever", "joiner">>,
      <<"joiner", "prompt_builder">>,
      <<"prompt_builder", "llm">> }

\* a component that runs as soon as one of its inputs has arrived
CanRunOnAnyInput(c) ==
    /\ hStatus = "running"
    /\ c \notin hRan
    /\ \/ \A conn \in Connections : conn[2] # c
       \/ \E conn \in Connections : conn[2] = c /\ conn[1] \in hRan

CanRun(c) ==
    /\ hStatus = "running"
    /\ c \notin hRan
    /\ \A conn \in Connections : conn[2] = c => conn[1] \in hRan

HybridInit ==
    /\ hRan = {}
    /\ hStatus = "running"
    /\ vecOut = <<>>
    /\ kwOut = <<>>
    /\ arrival = <<>>
    /\ fused = <<>>
    /\ prompt = <<>>
    /\ reply = ""

RunTextEmbedder ==
    /\ CanRun("text_embedder")
    /\ hRan' = hRan \cup {"text_embedder"}
    /\ UNCHANGED <<hStatus, vecOut, kwOut, arrival, fused, prompt, reply>>
    /\ UNCHANGED nonHybridVars

RunEmbeddingRetriever(lists) ==
    /\ CanRun("embedding_retriever")
    /\ \E l \in lists : vecOut' = l
    /\ arrival' = Append(arrival, "embedding_retriever")
    /\ hRan' = hRan \cup {"embedding_retriever"}
    /\ UNCHANGED <<hStatus, kwOut, fused, prompt, reply>>
    /\ UNCHANGED nonHybridVars

RunBM25Retriever(lists) ==
    /\ CanRun("bm25_retriever")
    /\ \E l \in lists : kwOut' = l
    /\ arrival' = Append(arrival, "bm25_retriever")
    /\ hRan' = hRan \cup {"bm25_retriever"}
    /\ UNCHANGED <<hStatus, vecOut, fused, prompt, reply>>
    /\ UNCHANGED nonHybridVars

JoinerInput ==
    [i \in 1..Len(arrival) |-> IF arrival[i] = "embedding_retriever" THEN vecOut ELSE kwOut]

RunJoiner ==
    /\ CanRun("joiner")
    /\ fused' = document_joiner(JoinerInput)
    /\ hRan' = hRan \cup {"joiner"}
    /\ UNCHANGED <<hStatus, vecOut, kwOut, arrival, prompt, reply>>
    /\ UNCHANGED nonHybridVars

RunPromptBuilder ==
    /\ CanRun("prompt_builder")
    /\ prompt' = template(fused, question)
    /\ hRan' = hRan \cup {"prompt_builder"}
    /\ UNCHANGED <<hStatus, vecOut, kwOut, arrival, fused, reply>>
    /\ UNCHANGED nonHybridVars

RunLLM ==
    /\ CanRun("llm")
    /\ \E r \in Replies : reply' = r
    /\ hRan' = hRan \cup {"llm"}
    /\ hStatus' = "done"
    /\ UNCHANGED <<vecOut, kwOut, arrival, fused, prompt>>
    /\ UNCHANGED nonHybridVars

\* a call to the Ollama server raises: pipeline.run propagates it and the script ends
OllamaError ==
    /\ \E c \in {"text_embedder", "llm"} : CanRun(c)
    /\ hStatus' = "error"
    /\ UNCHANGED <<hRan, vecOut, kwOut, arrival, fused, prompt, reply>>
    /\ UNCHANGED nonHybridVars


(***************************************************************************)
(* app.py:49  DocumentSplitter(split_by="word", split_length=250,          *)
(* split_overlap=50).  The text is split at the spaces into units; a       *)
(* window of split_length units slides over them in steps of               *)
(* split_length - split_overlap, the last window being filled up with      *)
(* padding; a window gives a chunk of its units, padding dropped, unless   *)
(* its text is empty.  Units are numbered from 0, a window is the span     *)
(* [winLo, winHi).                                                         *)
(***************************************************************************)
\* windows that do not overlap
step_without_overlap == split_length

step == split_length - split_overlap

\* "".split(" ") is [""]: an empty text is one empty unit
NumUnits(words) == IF words = 0 THEN 1 ELSE words

\* the chunk list after a window [lo, hi) is yielded: empty texts are skipped
Emit(lo, hi) == IF hi > lo /\ nWords > 0 THEN Append(chunks, <<lo, hi>>) ELSE chunks

SplitInit ==
    /\ nWords \in 0..MaxWords
    /\ fed = 0
    /\ winLo = 0
    /\ winHi = 0
    /\ countdown = split_length
    /\ chunks = <<>>
    /\ spPc = "split"

\* one unit enters the window; every `countdown` units a window is yielded
FeedUnit ==
    /\ spPc = "split"
    /\ fed < NumUnits(nWords)
    /\ fed' = fed + 1
    /\ winHi' = winHi + 1
    /\ winLo' = IF winHi - winLo = split_length THEN winLo + 1 ELSE winLo
    /\ IF countdown = 1
       THEN /\ countdown' = step
            /\ chunks' = Emit(winLo', winHi')
       ELSE /\ countdown' = countdown - 1
            /\ UNCHANGED chunks
    /\ UNCHANGED <<nWords, spPc>>
    /\ UNCHANGED nonSplitVars

\* the units are exhausted: a last, padded window if units are left over
FinishSplit ==
    /\ spPc = "split"
    /\ fed = NumUnits(nWords)
    /\ chunks' =
          IF winHi - winLo = 0 THEN chunks
          ELSE IF winHi - winLo < split_length THEN Emit(winLo, winHi)
          ELSE IF 0 < countdown /\ countdown < Min(step, split_length)
               THEN Emit(winLo + countdown, winHi)
          ELSE chunks
    /\ spPc' = "done"
    /\ UNCHANGED <<nWords, fed, winLo, winHi, countdown>>
    /\ UNCHANGED nonSplitVars


(***************************************************************************)
(* query_pdf.py:52-65  the interactive loop.                               *)
(***************************************************************************)
Lines == {"q", "Q", "q ", "quit", "What is attention?"}

\* str.lower on the lines of the model
Lower(line) ==
    CASE line = "Q" -> "q"
      [] line = "What is attention?" -> "what is attention?"
      [] OTHER -> line

CliInit ==
    /\ cliPc = "input"
    /\ cliLine = ""
    /\ cliOut = <<>>
    /\ cliErrors = 0
    /\ exitCode = -1

\* input() returns a line: 'q' breaks out of the loop, anything else is run
ReadLine ==
    /\ cliPc = "input"
    /\ \E line \in Lines :
          /\ cliLine' = line
          /\ IF Lower(line) = "q"
             THEN cliPc' = "exited" /\ exitCode' = 0
             ELSE /\ Len(cliOut) + cliErrors < MaxQueries
                  /\ cliPc' = "running"
                  /\ UNCHANGED exitCode
    /\ UNCHANGED <<cliOut, cliErrors>>
    /\ UNCHANGED nonCliVars

\* pipeline.run returns: the first reply is printed and the loop reads again
PrintAnswer ==
    /\ cliPc = "running"
    /\ \E r \in Replies : cliOut' = Append(cliOut, [question |-> cliLine, answer |-> r])
    /\ cliPc' = "input"
    /\ UNCHANGED <<cliLine, cliErrors, exitCode>>
    /\ UNCHANGED nonCliVars

\* pipeline.run raises: nothing catches it, the interpreter ends with a traceback
QueryRaises ==
    /\ cliPc = "running"
    /\ cliPc' = "crashed"
    /\ cliErrors' = cliErrors + 1
    /\ exitCode' = 1
    /\ UNCHANGED <<cliLine, cliOut>>
    /\ UNCHANGED nonCliVars

\* input() raises EOFError at the end of the input
InputEnds ==
    /\ cliPc = "input"
    /\ cliPc' = "crashed"
    /\ exitCode' = 1
    /\ UNCHANGED <<cliLine, cliOut, cliErrors>>
    /\ UNCHANGED nonCliVars


(***************************************************************************)
(* app.py: one session.  A script run handles either a click on            *)
(* "Start Indexing" or a submitted question.                               *)
(***************************************************************************)
Questions == {"question1", "question2"}
Stages == <<"converter", "cleaner", "splitter", "embedder", "writer">>
BeforeWriter == {"converter", "cleaner", "splitter", "embedder"}
StageAfter(stage) == Stages[(CHOOSE i \in 1..Len(Stages) : Stages[i] = stage) + 1]

\* the records the chunks of document d become; index_pdf.py indexes document 0
DocRecords(d, n) == {[doc |-> d, chunk |-> c] : c \in 1..n}

ChatInit ==
    /\ messages = <<>>
    /\ chatPrompt = ""
    /\ before = <<>>
    /\ turn = "none"

UploadInit ==
    /\ upDoc = 0
    /\ uploads = 0
    /\ upResult = "none"
    /\ upChanged = FALSE

\* app.py:125-129  the question is appended to the transcript and displayed
SubmitQuestion ==
    /\ appPc = "idle"
    /\ Len(messages) + 2 <= 2 * MaxTurns
    /\ \E q \in Questions :
          /\ chatPrompt' = q
          /\ messages' = Append(messages, [role |-> "user", content |-> q])
    /\ before' = messages
    /\ appPc' = "asking"
    /\ UNCHANGED <<turn, index, uploadVars, scriptVars>>
    /\ UNCHANGED nonAppVars

\* app.py:134-142  rag_pipeline.run returns: the reply is displayed and appended
SaveResponse ==
    /\ appPc = "asking"
    /\ \E response \in Replies :
          messages' = Append(messages, [role |-> "assistant", content |-> response])
    /\ turn' = "answered"
    /\ appPc' = "idle"
    /\ UNCHANGED <<chatPrompt, before, index, uploadVars, scriptVars>>
    /\ UNCHANGED nonAppVars

\* a failed question taken back out of the transcript
QuestionFailsAndRollsBack ==
    /\ appPc = "asking"
    /\ messages' = before
    /\ turn' = "failed"
    /\ appPc' = "idle"
    /\ UNCHANGED <<chatPrompt, before, index, uploadVars, scriptVars>>
    /\ UNCHANGED nonAppVars

\* app.py:134  rag_pipeline.run raises (a service is down, the generator times out)
\* or the run is stopped by a rerun: the script run ends there
QuestionFails ==
    /\ appPc = "asking"
    /\ turn' = "failed"
    /\ appPc' = "idle"
    /\ UNCHANGED <<messages, chatPrompt, before, index, uploadVars, scriptVars>>
    /\ UNCHANGED nonAppVars

\* app.py:100-108  "Start Indexing": the upload goes to a temporary file and the
\* indexing pipeline starts; the temporary path makes the document's id a new one
StartIndexing ==
    /\ appPc = "idle"
    /\ uploads < MaxUploads
    /\ uploads' = uploads + 1
    /\ upDoc' = uploads + 1
    /\ upResult' = "none"
    /\ upChanged' = FALSE
    /\ appPc' = "converter"
    /\ UNCHANGED <<index, chatVars, scriptVars>>
    /\ UNCHANGED nonAppVars

\* converter, cleaner, splitter, embedder: none touches the document store
UploadStage ==
    /\ appPc \in BeforeWriter
    /\ appPc' = StageAfter(appPc)
    /\ UNCHANGED <<index, chatVars, uploadVars, scriptVars>>
    /\ UNCHANGED nonAppVars

\* a failing stage that leaves the collection reset
UploadStageFailsAndResets ==
    /\ appPc \in BeforeWriter
    /\ upResult' = appPc
    /\ index' = {}
    /\ upChanged' = (upChanged \/ index' # index)
    /\ appPc' = "idle"
    /\ UNCHANGED <<chatVars, upDoc, uploads, scriptVars>>
    /\ UNCHANGED nonAppVars

UploadStageFails ==
    /\ appPc \in BeforeWriter
    /\ upResult' = appPc
    /\ appPc' = "idle"
    /\ UNCHANGED <<index, chatVars, upDoc, uploads, upChanged, scriptVars>>
    /\ UNCHANGED nonAppVars

\* the writer: the chunks are added to the collection (recreate_index=False)
UploadWrite ==
    /\ appPc = "writer"
    /\ index' = index \cup DocRecords(upDoc, ChunksPerDoc)
    /\ upChanged' = (upChanged \/ index' # index)
    /\ upResult' = "indexed"
    /\ appPc' = "idle"
    /\ UNCHANGED <<chatVars, upDoc, uploads, scriptVars>>
    /\ UNCHANGED nonAppVars

\* the write raises: the store is written in batches, those sent before stay
UploadWriteFails ==
    /\ appPc = "writer"
    /\ \E n \in 0..(ChunksPerDoc - 1) : index' = index \cup DocRecords(upDoc, n)
    /\ upChanged' = (upChanged \/ index' # index)
    /\ upResult' = "writer"
    /\ appPc' = "idle"
    /\ UNCHANGED <<chatVars, upDoc, uploads, scriptVars>>
    /\ UNCHANGED nonAppVars


(***************************************************************************)
(* index_pdf.py: a run of the ingestion script against the same            *)
(* collection.  recreate_index=True drops the collection, when the store   *)
(* is constructed or, in releases that connect lazily, on its first use.   *)
(***************************************************************************)
ScriptInit ==
    /\ scPc = "off"
    /\ scLazy \in BOOLEAN
    /\ scChanged = FALSE

\* index_pdf.py:20-26  document_store = QdrantDocumentStore(..., recreate_index=True)
ScriptStart ==
    /\ scPc \in {"off", "indexed", "failed"}
    /\ index' = IF scLazy THEN index ELSE {}
    /\ scChanged' = (index' # index)
    /\ scPc' = "converter"
    /\ UNCHANGED <<appPc, chatVars, uploadVars, scLazy>>
    /\ UNCHANGED nonAppVars

ScriptStage ==
    /\ scPc \in BeforeWriter
    /\ scPc' = StageAfter(scPc)
    /\ UNCHANGED <<appPc, index, chatVars, uploadVars, scLazy, scChanged>>
    /\ UNCHANGED nonAppVars

ScriptStageFails ==
    /\ scPc \in BeforeWriter
    /\ scPc' = "failed"
    /\ UNCHANGED <<appPc, index, chatVars, uploadVars, scLazy, scChanged>>
    /\ UNCHANGED nonAppVars

\* the collection as the first use of a lazily connecting store leaves it
AfterFirstUse == IF scLazy THEN {} ELSE index

ScriptWrite ==
    /\ scPc = "writer"
    /\ index' = AfterFirstUse \cup DocRecords(0, ChunksPerDoc)
    /\ scChanged' = (scChanged \/ index' # index)
    /\ scPc' = "indexed"
    /\ UNCHANGED <<appPc, chatVars, uploadVars, scLazy>>
    /\ UNCHANGED nonAppVars

ScriptWriteFails ==
    /\ scPc = "writer"
    /\ \E n \in 0..(ChunksPerDoc - 1) : index' = AfterFirstUse \cup DocRecords(0, n)
    /\ scChanged' = (scChanged \/ index' # index)
    /\ scPc' = "failed"
    /\ UNCHANGED <<appPc, chatVars, uploadVars, scLazy>>
    /\ UNCHANGED nonAppVars


\* the parts a specification leaves idle
HybridIdle ==
    /\ hRan = {} /\ hStatus = "idle" /\ vecOut = <<>> /\ kwOut = <<>>
    /\ arrival = <<>> /\ fused = <<>> /\ prompt = <<>> /\ reply = ""
SessionIdle == appPc = "idle" /\ ChatInit /\ UploadInit
ScriptIdle == scPc = "off" /\ scLazy = FALSE /\ scChanged = FALSE
AppIdle == SessionIdle /\ ScriptIdle /\ index = {}
CliIdle ==
    /\ cliPc = "idle" /\ cliLine = "" /\ cliOut = <<>> /\ cliErrors = 0 /\ exitCode = -1
SplitIdle ==
    /\ nWords = 0 /\ fed = 0 /\ winLo = 0 /\ winHi = 0
    /\ countdown = split_length /\ chunks = <<>> /\ spPc = "idle"

\* the collection when the model starts: empty, or holding an earlier run's paper
IndexInit == index \in {{}, DocRecords(0, ChunksPerDoc)}

(***************************************************************************)
(* Specifications.                                                         *)
(***************************************************************************)
\* demo.py, the hybrid pipeline
Init == HybridInit /\ AppIdle /\ CliIdle /\ SplitIdle
Next ==
    \/ RunTextEmbedder
    \/ RunEmbeddingRetriever(DemoLists)
    \/ RunBM25Retriever(DemoLists)
    \/ RunJoiner
    \/ RunPromptBuilder
    \/ RunLLM
    \/ OllamaError
Spec == Init /\ [][Next]_vars

\* demo.py with result lists that exceed top_k
CapNext ==
    \/ RunTextEmbedder
    \/ RunEmbeddingRetriever(CapLists)
    \/ RunBM25Retriever(CapLists)
    \/ RunJoiner
    \/ RunPromptBuilder
    \/ RunLLM
    \/ OllamaError
SpecCap == Init /\ [][CapNext]_vars

\* app.py, one session
AppInit == HybridIdle /\ SessionIdle /\ ScriptIdle /\ IndexInit /\ CliIdle /\ SplitIdle
AppNext ==
    \/ SubmitQuestion
    \/ SaveResponse
    \/ QuestionFails
    \/ StartIndexing
    \/ UploadStage
    \/ UploadStageFails
    \/ UploadWrite
    \/ UploadWriteFails
SpecApp == AppInit /\ [][AppNext]_vars

\* app.py uploads and index_pdf.py runs on the shared collection
IngestInit == HybridIdle /\ SessionIdle /\ ScriptInit /\ IndexInit /\ CliIdle /\ SplitIdle
IngestNext ==
    \/ StartIndexing
    \/ UploadStage
    \/ UploadStageFails
    \/ UploadWrite
    \/ UploadWriteFails
    \/ ScriptStart
    \/ ScriptStage
    \/ ScriptStageFails
    \/ ScriptWrite
    \/ ScriptWriteFails
SpecIngest == IngestInit /\ [][IngestNext]_vars

\* query_pdf.py
CliSpecInit == HybridIdle /\ AppIdle /\ CliInit /\ SplitIdle
CliNext == ReadLine \/ PrintAnswer \/ QueryRaises \/ InputEnds
SpecCli == CliSpecInit /\ [][CliNext]_vars

\* the splitter over documents of up to MaxWords words
SplitSpecInit == HybridIdle /\ AppIdle /\ CliIdle /\ SplitInit
SplitNext == FeedUnit \/ FinishSplit
SpecSplit == SplitSpecInit /\ [][SplitNext]_vars

(***************************************************************************)
(* Properties.                                                             *)
(***************************************************************************)
InBoth(id) == id \in Ids(vecOut) /\ id \in Ids(kwOut)
VectorOnly(id) == id \in Ids(vecOut) /\ id \notin Ids(kwOut)
KeywordOnly(id) == id \in Ids(kwOut) /\ id \notin Ids(vecOut)
DistinctIds(list) == \A i, j \in 1..Len(list) : i # j => list[i].id # list[j].id
\* position of id in a list that holds it
Rank(list, id) == CHOOSE i \in 1..Len(list) : list[i].id = id
IdsOf(list) == [i \in 1..Len(list) |-> list[i].id]

\* C1: the fused list holds each record id at most once, and every record
\* that is in both input lists is ranked strictly above every record that is
\* in only one of them.
C1_DedupAndBoost ==
    "joiner" \in hRan =>
        /\ DistinctIds(fused)
        /\ \A i, j \in 1..Len(fused) :
              InBoth(fused[i].id) /\ ~InBoth(fused[j].id) => i < j

\* C2: among the records of only one input list the vector-only ones come
\* first, in vector rank order, then the keyword-only ones, in keyword rank
\* order, whatever the scores; vector [A, B] scored A > B and keyword [B, C]
\* scored B > C, both above the vector scores, fuse to [B, A, C]
\* (A, B, C are documents 1, 2, 3).
C2_VectorBeforeKeyword ==
    "joiner" \in hRan =>
        /\ \A i, j \in 1..Len(fused) :
              /\ VectorOnly(fused[i].id) /\ KeywordOnly(fused[j].id) => i < j
              /\ VectorOnly(fused[i].id) /\ VectorOnly(fused[j].id) /\ i < j
                    => Rank(vecOut, fused[i].id) < Rank(vecOut, fused[j].id)
              /\ KeywordOnly(fused[i].id) /\ KeywordOnly(fused[j].id) /\ i < j
                    => Rank(kwOut, fused[i].id) < Rank(kwOut, fused[j].id)
        /\ ( /\ vecOut = <<[id |-> 1, score |-> 2], [id |-> 2, score |-> 1]>>
             /\ kwOut = <<[id |-> 2, score |-> 4], [id |-> 3, score |-> 3]>> )
              => IdsOf(fused) = <<2, 1, 3>>

\* C3: the cut to top_k is applied to the list without duplicates: the fused
\* list holds distinct records of the inputs and has
\* min(top_k, number of distinct ids of both inputs) of them.
C3_CutAfterDedup ==
    "joiner" \in hRan =>
        /\ DistinctIds(fused)
        /\ Ids(fused) \subseteq Ids(vecOut) \cup Ids(kwOut)
        /\ Len(fused) = Min(top_k, Cardinality(Ids(vecOut) \cup Ids(kwOut)))

\* C3 witness: both branches returned records, some of them twice and more
\* than top_k in all, and the joiner cut the list to top_k.
C3_Witness ==
    /\ "joiner" \in hRan
    /\ Cardinality(Ids(vecOut) \cup Ids(kwOut)) > top_k
    /\ Len(fused) = top_k

HasNoContextSignal(p) == \E i \in 1..Len(p) : p[i].slot = "no context"
HasQuestion(p, q) == \E i \in 1..Len(p) : p[i].slot = "question" /\ p[i].text = q

\* C4: when both branches return nothing the fused context is empty and the
\* prompt holds the question and an explicit signal that there is no context.
C4_EmptyContextSignalled ==
    ("prompt_builder" \in hRan /\ vecOut = <<>> /\ kwOut = <<>>) =>
        /\ fused = <<>>
        /\ HasQuestion(prompt, question)
        /\ HasNoContextSignal(prompt)

\* C5: a question whose pipeline run failed leaves the transcript as it was
\* before the question: nothing of the failed turn is in it.
C5_FailedTurnNotAppended ==
    turn = "failed" /\ appPc # "asking" => messages = before

C7_LoopEndsOnlyOnQuit ==
    /\ cliPc = "exited" <=> (Lower(cliLine) = "q" /\ exitCode = 0)
    /\ cliErrors > 0 => cliPc \in {"input", "running", "exited"}

\* chunk i (from 1) is the span [step*(i-1), min(step*(i-1) + split_length, n))
ChunkSpansAsStated(n) ==
    /\ \A i \in 1..Len(chunks) :
          chunks[i] = <<step * (i - 1), Min(step * (i - 1) + split_length, n)>>
    /\ \A i \in 1..(Len(chunks) - 1) :
          /\ chunks[i][2] - chunks[i + 1][1] = split_overlap
          /\ chunks[i][2] < n
    /\ n > 0 => Len(chunks) > 0
    /\ Len(chunks) > 0 => chunks[Len(chunks)][2] = n
    /\ n < split_length => Len(chunks) = 1
    /\ n = 600 => chunks = << <<0, 250>>, <<200, 450>>, <<400, 600>> >>

\* C8: the chunks of an n-word document are the spans [200i, min(200i+250, n)),
\* adjacent ones share 50 words, together they cover the document, fewer than
\* 250 words give one chunk and 600 words give [0,250), [200,450), [400,600).
C8_ChunkSpans ==
    spPc = "done" => ChunkSpansAsStated(nWords)

\* C8 amended: the same for every document of at least one word; a document
\* of no word gives no chunk.
C8_ChunkSpansNonEmpty ==
    spPc = "done" =>
        /\ nWords > 0 => ChunkSpansAsStated(nWords)
        /\ nWords = 0 => chunks = <<>>

\* C8 witness: the 600-word document split into its three chunks.
C8_Witness ==
    /\ spPc = "done"
    /\ nWords = 600
    /\ Len(chunks) = 3

\* C9: the joiner runs only after both retrievers, the prompt builder only
\* after the joiner, the generator only after the prompt builder; the vector
\* retriever needs the query embedding, the keyword retriever waits for nothing.
C9_StageOrder ==
    /\ "joiner" \in hRan => {"embedding_retriever", "bm25_retriever"} \subseteq hRan
    /\ "prompt_builder" \in hRan => "joiner" \in hRan
    /\ "llm" \in hRan => "prompt_builder" \in hRan
    /\ "embedding_retriever" \in hRan => "text_embedder" \in hRan
    /\ (hStatus = "running" /\ "bm25_retriever" \notin hRan) => ENABLED RunBM25Retriever(CapLists)

\* C9 witness: the keyword retriever has returned its list while the query
\* embedding has not been computed, and the run goes on to the joiner later.
C9_Witness ==
    /\ "bm25_retriever" \in hRan
    /\ "text_embedder" \notin hRan
    /\ kwOut # <<>>

\* C10: the transcript only grows at its end, and a question that is
\* answered adds the user entry with the question and, next to it, the
\* assistant entry with the reply.
C10_AppendOnly ==
    [][ /\ IsPrefix(messages, messages')
        /\ turn' = "answered" /\ appPc = "asking" /\ appPc' = "idle" =>
              \E response \in Replies :
                  messages' = before \o <<[role |-> "user", content |-> chatPrompt],
                                          [role |-> "assistant", content |-> response]>> ]_vars

\* C10 witness: a question answered after an upload and after a failed
\* question, whose user entry stays in the transcript.
C10_Witness ==
    /\ turn = "answered"
    /\ appPc = "idle"
    /\ Len(messages) = 3
    /\ upResult = "indexed"

====
